---- MODULE Spec2Model ----
(***************************************************************************)
(* Race simulator (src/app.py): a Streamlit script over two Snowflake      *)
(* tables, TEAMS.TEAMS and CARS.CARS.  Every widget interaction runs the   *)
(* script once; one action below is one button handler of that run (the    *)
(* Start Race handler is cut at its two database updates: pc is its        *)
(* position).  The session is single-threaded: while a race handler is     *)
(* running no other handler can start.                                     *)
(***************************************************************************)
EXTENDS Integers, Sequences, FiniteSets

\* ---- bounds of the model ----
MaxTeams == 2
MaxCars == 2
MaxRaces == 1

\* ---- program constants (src/app.py:9-10) ----
RACE_FEE == 1000
PRIZE_MONEY == 5000

\* ---- inputs of the widgets ----
\* st.text_input("Team Name"): the empty string is the widget's default.
TeamNames == {"", "Alpha", "Beta"}
\* st.number_input("Team Budget", min_value=0, value=50000)
Budgets == {50000}
\* st.text_input("Car Model")
CarModels == {"", "X"}
\* st.slider("Top Speed (km/h)", 100, 400, 250)
TopSpeeds == {250}
\* st.slider("Acceleration (0-100 km/h)", 1.0, 10.0, 5.0)
Accelerations == {1, 10}
\* st.slider("Handling", 1.0, 10.0, 5.0)
Handlings == {5}
\* The three random.uniform(-0.1, 0.1) draws of one car, in percent.
JitterDraws == {<<0, 0, 0>>, <<-10, 10, 0>>}

\* winner_team_id before line 164 has run
None == "None"

VARIABLES
    conn,            \* get_snowflake_connection(): TRUE a connection, FALSE None
    TEAMS,           \* table TEAMS.TEAMS, rows in insertion order
    CARS,            \* table CARS.CARS, rows in insertion order
    teams_df,        \* load_data(conn)[0] of the current script run
    cars_df,         \* load_data(conn)[1] of the current script run
    pc,              \* position of the Start Race handler: idle, racing, settle
    race_results,    \* list of result rows, in cars_df order
    results_df,      \* the sorted results; <<>> when none is displayed
    winner_team_id,  \* results_df.iloc[0]['Team ID'], None before it is set
    messages,        \* <<kind, text>> of each st.error / st.warning / st.success
                     \* call of the current handler
    last_op,         \* history: the handler that ran last and how it ended
    old_TEAMS,       \* history: TEAMS when the last handler started
    old_CARS,        \* history: CARS when the last handler started
    races            \* history: number of races whose fee was deducted

vars == <<conn, TEAMS, CARS, teams_df, cars_df, pc, race_results, results_df,
          winner_team_id, messages, last_op, old_TEAMS, old_CARS, races>>

\* ---- uuid.uuid4(): a fresh identifier per inserted row ----
uuid4(table, n) == <<table, n>>

\* ---- load_data (lines 36-51) ----
\* st.cache_data keeps the two frames between runs.  Every handler that
\* writes a table clears the cache before the next load, so in this single
\* session a cached frame is the table as it stands.
load_data(c, teams, cars) ==
    IF ~c THEN <<(<<>>), (<<>>)>> ELSE <<teams, cars>>

\* ---- the race time of one car (lines 150-152) ----
\* Times are exact rationals held as integers: TimeUnit ticks are one second.
\* With jitter in {-10, 0, 10} percent and the slider values above every
\* quotient below is exact, so the order of the ticks is the order of the
\* real numbers the code computes.
TimeUnit == 99 * 10000

\* numer / (stat * (1 + j/100)) seconds, in ticks
Term(numer, stat, j) == ((TimeUnit \div (100 + j)) * (100 * numer)) \div stat

time_taken(car_row, js) ==
    Term(100, car_row.TOP_SPEED, js[1])
    + Term(10, car_row.ACCELERATION, js[2])
    + Term(10, car_row.HANDLING, js[3])

\* ---- f"{time_taken:.2f} sec" (line 157) ----
\* A string is a sequence of one-character strings.
Digit(d) == <<"0", "1", "2", "3", "4", "5", "6", "7", "8", "9">>[d + 1]

RECURSIVE Decimal(_)
Decimal(n) == IF n < 10 THEN <<Digit(n)>> ELSE Append(Decimal(n \div 10), Digit(n % 10))

\* the time in hundredths of a second, rounded half to even
Hundredths(t) ==
    LET u == TimeUnit \div 100
        q == t \div u
        r == t % u
    IN  IF 2 * r > u \/ (2 * r = u /\ q % 2 = 1) THEN q + 1 ELSE q

FormatTime(t) ==
    LET h == Hundredths(t)
    IN  Decimal(h \div 100) \o <<".", Digit((h \div 10) % 10), Digit(h % 10)>>
        \o <<" ", "s", "e", "c">>

\* ---- comparison of Python strings: by code point, a prefix first ----
Ord(c) ==
    CASE c = " " -> 32
      [] c = "." -> 46
      [] c = "0" -> 48 [] c = "1" -> 49 [] c = "2" -> 50 [] c = "3" -> 51
      [] c = "4" -> 52 [] c = "5" -> 53 [] c = "6" -> 54 [] c = "7" -> 55
      [] c = "8" -> 56 [] c = "9" -> 57
      [] c = "c" -> 99 [] c = "e" -> 101 [] c = "s" -> 115

StrLess(a, b) ==
    \E i \in 1..Len(b) :
        /\ i <= Len(a) + 1
        /\ \A k \in 1..(i - 1) : a[k] = b[k]
        /\ (i = Len(a) + 1 \/ Ord(a[i]) < Ord(b[i]))

\* ---- DataFrame(race_results).sort_values(by="Time") (line 162) ----
\* The key is the Time column, a column of strings.  The default sort kind
\* (quicksort) promises no order among equal keys: every order of the rows
\* that is non-decreasing in the key is an outcome.
Permutations(n) == {p \in [1..n -> 1..n] : \A i, j \in 1..n : p[i] = p[j] => i = j}

sort_values(rows) ==
    {[i \in 1..Len(rows) |-> rows[p[i]]] : p \in
        {q \in Permutations(Len(rows)) :
            \A i, j \in 1..Len(rows) :
                i < j => ~StrLess(rows[q[j]].Time, rows[q[i]].Time)}}

\* ---- the two UPDATE statements of a race ----
\* UPDATE TEAMS.TEAMS SET BUDGET = BUDGET - RACE_FEE (line 138)
DeductFee(teams) ==
    [i \in 1..Len(teams) |-> [teams[i] EXCEPT !.BUDGET = @ - RACE_FEE]]

\* faulty variant: the prize UPDATE without its WHERE clause
CreditPrize_NoWhere(teams, id) ==
    [i \in 1..Len(teams) |-> [teams[i] EXCEPT !.BUDGET = @ + PRIZE_MONEY]]

\* faulty variant: the prize written as DELETE of the winner's row and INSERT of a new one
CreditPrize_Reinsert(teams, id) ==
    SelectSeq(teams, LAMBDA r : r.TEAM_ID # id)
    \o [i \in 1..Len(SelectSeq(teams, LAMBDA r : r.TEAM_ID = id)) |->
            [SelectSeq(teams, LAMBDA r : r.TEAM_ID = id)[i]
                EXCEPT !.BUDGET = @ + PRIZE_MONEY]]

\* UPDATE TEAMS.TEAMS SET BUDGET = BUDGET + PRIZE_MONEY WHERE TEAM_ID = id (line 169)
CreditPrize(teams, id) ==
    [i \in 1..Len(teams) |->
        IF teams[i].TEAM_ID = id
        THEN [teams[i] EXCEPT !.BUDGET = @ + PRIZE_MONEY]
        ELSE teams[i]]

\* ---- lookups in teams_df ----
\* teams_df['TEAM_NAME'].unique() (line 96)
team_list(tdf) == {tdf[i].TEAM_NAME : i \in 1..Len(tdf)}

\* teams_df.loc[teams_df[column] == value, wanted].iloc[0]: the first match
FirstIndex(tdf, column, value) ==
    CHOOSE i \in 1..Len(tdf) :
        /\ tdf[i][column] = value
        /\ \A k \in 1..(i - 1) : tdf[k][column] # value

\* faulty variant: the car row stores the selected name where the id belongs
LookupTeamId_ByName(tdf, assigned_team) == assigned_team

\* line 103
LookupTeamId(tdf, assigned_team) == tdf[FirstIndex(tdf, "TEAM_NAME", assigned_team)].TEAM_ID

\* line 156
LookupTeamName(tdf, team_id) == tdf[FirstIndex(tdf, "TEAM_ID", team_id)].TEAM_NAME

\* faulty variant: the check for cars is forgotten
RacePrecondition_TeamsOnly(tdf, cdf) == ~(tdf = <<>>)

\* line 131 (negated): a race needs a team and a car
RacePrecondition(tdf, cdf) == ~(tdf = <<>> \/ cdf = <<>>)

\* one row of race_results (lines 154-159); time_taken is the local of line
\* 150, kept beside the row to state the claims about the numeric time
ResultRow(tdf, car_row, js) ==
    [Car_Model |-> car_row.CAR_MODEL,
     Team |-> LookupTeamName(tdf, car_row.ASSIGNED_TEAM_ID),
     Time |-> FormatTime(time_taken(car_row, js)),
     Team_ID |-> car_row.ASSIGNED_TEAM_ID,
     time_taken |-> time_taken(car_row, js)]

\* ---- the state after the script's first run (lines 54-55) ----
Init ==
    /\ conn \in BOOLEAN
    /\ TEAMS = <<>>
    /\ CARS = <<>>
    /\ teams_df = <<>>
    /\ cars_df = <<>>
    /\ pc = "idle"
    /\ race_results = <<>>
    /\ results_df = <<>>
    /\ winner_team_id = None
    /\ messages = {}
    /\ last_op = "none"
    /\ old_TEAMS = <<>>
    /\ old_CARS = <<>>
    /\ races = 0

\* A script run that does not press Start Race shows no race results.
NoRaceShown ==
    /\ race_results' = <<>>
    /\ results_df' = <<>>
    /\ winner_team_id' = None

\* st.cache_data.clear() and the rerun's load_data (lines 76-77, 109-110)
Reload ==
    /\ teams_df' = load_data(conn, TEAMS', CARS')[1]
    /\ cars_df' = load_data(conn, TEAMS', CARS')[2]

\* ---- "Add Team" (lines 68-79) ----
AddTeam ==
    /\ pc = "idle"
    /\ \E team_name \in TeamNames, budget \in Budgets, ok \in BOOLEAN :
        /\ old_TEAMS' = TEAMS
        /\ old_CARS' = CARS
        /\ NoRaceShown
        /\ UNCHANGED <<conn, CARS, pc, races>>
        /\ IF team_name # "" /\ conn
           THEN IF ok
                THEN /\ Len(TEAMS) < MaxTeams
                     /\ TEAMS' = Append(TEAMS,
                            [TEAM_ID |-> uuid4("TEAMS", Len(TEAMS) + 1),
                             TEAM_NAME |-> team_name,
                             MEMBERS_COUNT |-> 0,
                             BUDGET |-> budget])
                     /\ messages' = {<<"success", "team added">>}
                     /\ last_op' = "add_team: inserted"
                     /\ Reload
                ELSE /\ messages' = {<<"error", "Failed to add team">>}
                     /\ last_op' = "add_team: failed"
                     /\ UNCHANGED <<TEAMS, teams_df, cars_df>>
           ELSE /\ messages' = {}
                /\ last_op' = IF team_name = "" THEN "add_team: empty name"
                                                ELSE "add_team: no connection"
                /\ UNCHANGED <<TEAMS, teams_df, cars_df>>

\* ---- "Add Car" (lines 98-112): the button exists when team_list is not empty ----
AddCar ==
    /\ pc = "idle"
    /\ team_list(teams_df) # {}
    /\ \E car_model \in CarModels, top_speed \in TopSpeeds,
          acceleration \in Accelerations, handling \in Handlings,
          assigned_team \in team_list(teams_df), ok \in BOOLEAN :
        /\ old_TEAMS' = TEAMS
        /\ old_CARS' = CARS
        /\ NoRaceShown
        /\ UNCHANGED <<conn, TEAMS, pc, races>>
        /\ IF car_model # "" /\ conn
           THEN IF ok
                THEN /\ Len(CARS) < MaxCars
                     /\ CARS' = Append(CARS,
                            [CAR_ID |-> uuid4("CARS", Len(CARS) + 1),
                             CAR_MODEL |-> car_model,
                             TOP_SPEED |-> top_speed,
                             ACCELERATION |-> acceleration,
                             HANDLING |-> handling,
                             ASSIGNED_TEAM_ID |-> LookupTeamId(teams_df, assigned_team)])
                     /\ messages' = {<<"success", "car added">>}
                     /\ last_op' = "add_car: inserted"
                     /\ Reload
                ELSE /\ messages' = {<<"error", "Failed to add car">>}
                     /\ last_op' = "add_car: failed"
                     /\ UNCHANGED <<CARS, teams_df, cars_df>>
           ELSE /\ messages' = {}
                /\ last_op' = "add_car: empty model"
                /\ UNCHANGED <<CARS, teams_df, cars_df>>

\* ---- "Add a Car" with no team to choose (lines 113-114): no button, a warning ----
AddCarNoTeam ==
    /\ pc = "idle"
    /\ team_list(teams_df) = {}
    /\ old_TEAMS' = TEAMS
    /\ old_CARS' = CARS
    /\ NoRaceShown
    /\ messages' = {<<"warning", "Please add at least one team first.">>}
    /\ last_op' = "add_car: no team"
    /\ UNCHANGED <<conn, TEAMS, CARS, teams_df, cars_df, pc, races>>

\* ---- "Start Race", lines 130-132: the precondition fails ----
StartRaceRejected ==
    /\ pc = "idle"
    /\ ~RacePrecondition(teams_df, cars_df)
    /\ old_TEAMS' = TEAMS
    /\ old_CARS' = CARS
    /\ NoRaceShown
    /\ messages' = {<<"error", "You need at least one team and one car to start the race.">>}
    /\ last_op' = "race: rejected"
    /\ UNCHANGED <<conn, TEAMS, CARS, teams_df, cars_df, pc, races>>

\* faulty variant: the except branch without st.stop(): the handler runs on
DeductRaceFee_NoStop ==
    /\ pc = "idle"
    /\ RacePrecondition(teams_df, cars_df)
    /\ conn
    /\ races < MaxRaces
    /\ old_TEAMS' = TEAMS
    /\ old_CARS' = CARS
    /\ NoRaceShown
    /\ pc' = "racing"
    /\ UNCHANGED <<conn, CARS, teams_df, cars_df>>
    /\ \E ok \in BOOLEAN :
        IF ok
        THEN /\ TEAMS' = DeductFee(TEAMS)
             /\ races' = races + 1
             /\ messages' = {}
             /\ last_op' = "race: fee deducted"
        ELSE /\ messages' = {<<"error", "Failed to deduct race fees">>}
             /\ last_op' = "race: fee failed"
             /\ UNCHANGED <<TEAMS, races>>

\* ---- "Start Race", lines 133-142: the fee update, st.stop() when it fails ----
DeductRaceFee ==
    /\ pc = "idle"
    /\ RacePrecondition(teams_df, cars_df)
    /\ conn
    /\ races < MaxRaces
    /\ old_TEAMS' = TEAMS
    /\ old_CARS' = CARS
    /\ NoRaceShown
    /\ UNCHANGED <<conn, CARS, teams_df, cars_df>>
    /\ \E ok \in BOOLEAN :
        IF ok
        THEN /\ TEAMS' = DeductFee(TEAMS)
             /\ races' = races + 1
             /\ messages' = {}
             /\ pc' = "racing"
             /\ last_op' = "race: fee deducted"
        ELSE /\ messages' = {<<"error", "Failed to deduct race fees">>}
             /\ pc' = "idle"
             /\ last_op' = "race: fee failed"
             /\ UNCHANGED <<TEAMS, races>>

\* ---- "Start Race", lines 144-165: times, rows, sort, winner ----
RunRace ==
    /\ pc = "racing"
    /\ \E js \in [1..Len(cars_df) -> JitterDraws] :
        /\ race_results' = [i \in 1..Len(cars_df) |-> ResultRow(teams_df, cars_df[i], js[i])]
        /\ results_df' \in sort_values(race_results')
        /\ winner_team_id' = results_df'[1].Team_ID
    /\ pc' = "settle"
    /\ last_op' = "race: ranked"
    /\ UNCHANGED <<conn, TEAMS, CARS, teams_df, cars_df, messages, old_TEAMS,
                   old_CARS, races>>

\* faulty variant: a failed prize update gives the fee back
SettleRace_RollsBack ==
    /\ pc = "settle"
    /\ \E ok \in BOOLEAN :
        IF ok
        THEN /\ TEAMS' = CreditPrize(TEAMS, winner_team_id)
             /\ messages' = {<<"success", "winner announced">>}
             /\ last_op' = "race: finished"
        ELSE /\ messages' = {<<"error", "Failed to update winner's budget">>,
                             <<"success", "winner announced">>}
             /\ last_op' = "race: prize failed"
             /\ TEAMS' = old_TEAMS
    /\ teams_df' = load_data(conn, TEAMS', CARS)[1]
    /\ pc' = "idle"
    /\ UNCHANGED <<conn, CARS, cars_df, race_results, results_df, winner_team_id,
                   old_TEAMS, old_CARS, races>>

\* ---- "Start Race", lines 167-182: the prize update, the display, the reload ----
SettleRace ==
    /\ pc = "settle"
    /\ \E ok \in BOOLEAN :
        IF ok
        THEN /\ TEAMS' = CreditPrize(TEAMS, winner_team_id)
             /\ messages' = {<<"success", "winner announced">>}
             /\ last_op' = "race: finished"
        ELSE /\ messages' = {<<"error", "Failed to update winner's budget">>,
                             <<"success", "winner announced">>}
             /\ last_op' = "race: prize failed"
             /\ UNCHANGED TEAMS
    /\ teams_df' = load_data(conn, TEAMS', CARS)[1]
    /\ pc' = "idle"
    /\ UNCHANGED <<conn, CARS, cars_df, race_results, results_df, winner_team_id,
                   old_TEAMS, old_CARS, races>>

Next ==
    \/ AddTeam
    \/ AddCar
    \/ AddCarNoTeam
    \/ StartRaceRejected
    \/ DeductRaceFee
    \/ RunRace
    \/ SettleRace

Spec == Init /\ [][Next]_vars

\* ---- what the claims speak of ----
Errors == {m \in messages : m[1] = "error"}

RaceOps == {"race: rejected", "race: fee failed", "race: fee deducted",
            "race: ranked", "race: finished", "race: prize failed"}

TeamIds == {TEAMS[i].TEAM_ID : i \in 1..Len(TEAMS)}

CarsOf(team_id) == {i \in 1..Len(CARS) : CARS[i].ASSIGNED_TEAM_ID = team_id}

\* a frame without its BUDGET column (the columns a race must not touch)
RECURSIVE SeqMap(_, _)
SeqMap(s, n) ==
    IF n = 0 THEN <<>>
    ELSE Append(SeqMap(s, n - 1),
                [TEAM_ID |-> s[n].TEAM_ID, TEAM_NAME |-> s[n].TEAM_NAME,
                 MEMBERS_COUNT |-> s[n].MEMBERS_COUNT])

WithoutBudget(t) == SeqMap(t, Len(t))

IsPrefix(s, t) == Len(s) <= Len(t) /\ \A i \in 1..Len(s) : s[i] = t[i]

\* every team's budget is its budget when the handler started, less the fee
FeePaidByAll ==
    /\ Len(TEAMS) = Len(old_TEAMS)
    /\ \A i \in 1..Len(TEAMS) : TEAMS[i].BUDGET = old_TEAMS[i].BUDGET - RACE_FEE

\* C1: after a race in which the fee update and the prize update both
\* succeeded, the team the handler declared winner (winner_team_id) is one
\* registered team and holds its pre-race budget - RACE_FEE + PRIZE_MONEY,
\* and every other registered team holds its pre-race budget - RACE_FEE,
\* whether it owns a car or not and however many cars the winner owns.
C1_BudgetsAfterRace ==
    last_op = "race: finished" =>
        /\ Len(TEAMS) = Len(old_TEAMS)
        /\ Cardinality({i \in 1..Len(TEAMS) : TEAMS[i].TEAM_ID = winner_team_id}) = 1
        /\ \A i \in 1..Len(TEAMS) :
            TEAMS[i].BUDGET =
                IF TEAMS[i].TEAM_ID = winner_team_id
                THEN old_TEAMS[i].BUDGET - RACE_FEE + PRIZE_MONEY
                ELSE old_TEAMS[i].BUDGET - RACE_FEE

\* C1 witness: a finished race whose winner owns several cars while another
\* registered team owns none.
C1_Witness ==
    /\ last_op = "race: finished"
    /\ Cardinality(CarsOf(winner_team_id)) >= 2
    /\ \E t \in TeamIds : CarsOf(t) = {}

\* C2: the displayed results are in non-decreasing order of the computed
\* numeric times: no row stands before a row with a strictly smaller time.
C2_SortedByTime ==
    \A i, j \in 1..Len(results_df) :
        i < j => results_df[i].time_taken <= results_df[j].time_taken

\* C3: the team that is declared winner and credited PRIZE_MONEY owns a car
\* whose computed numeric time is the minimum over all cars of the race.
C3_WinnerIsFastest ==
    last_op = "race: finished" =>
        \E i \in 1..Len(results_df) :
            /\ results_df[i].Team_ID = winner_team_id
            /\ \A j \in 1..Len(results_df) :
                results_df[i].time_taken <= results_df[j].time_taken

\* C4: from a state with no registered team or no registered car no step
\* changes a budget, produces results or enters the fee phase, and a race
\* started there is rejected with an error.
C4_NoRaceWithoutEntrants ==
    [][(TEAMS = <<>> \/ CARS = <<>>) =>
        /\ IsPrefix(TEAMS, TEAMS')
        /\ race_results' = <<>>
        /\ results_df' = <<>>
        /\ pc' = "idle"
        /\ last_op' \in RaceOps => (last_op' = "race: rejected" /\ Errors' # {})]_vars

\* C4 witness: a rejected race with a registered team and no car.
C4_Witness ==
    /\ last_op = "race: rejected"
    /\ TEAMS # <<>>
    /\ CARS = <<>>
    /\ TEAMS = old_TEAMS

\* C5: adding a team with an empty name (the connection being there) reports
\* an error and leaves the table of teams as it was.
C5_EmptyNameReported ==
    (last_op = "add_team: empty name" /\ conn) => (Errors # {} /\ TEAMS = old_TEAMS)

\* C6: every registered car's ASSIGNED_TEAM_ID is the TEAM_ID of a
\* registered team, and an add-car with no team to resolve leaves both
\* tables as they were.
C6_CarsReferToTeams ==
    /\ \A i \in 1..Len(CARS) : CARS[i].ASSIGNED_TEAM_ID \in TeamIds
    /\ last_op = "add_car: no team" => (CARS = old_CARS /\ TEAMS = old_TEAMS)

\* C6 witness: cars of two different teams are registered and a race has run.
C6_Witness ==
    /\ pc = "idle"
    /\ races >= 1
    /\ \E i, j \in 1..Len(CARS) : CARS[i].ASSIGNED_TEAM_ID # CARS[j].ASSIGNED_TEAM_ID

\* C7: when the fee update fails the handler has stopped: no time is
\* computed, no winner is set, no budget is changed.
C7_FeeFailureStopsRace ==
    last_op = "race: fee failed" =>
        /\ pc = "idle"
        /\ race_results = <<>>
        /\ results_df = <<>>
        /\ winner_team_id = None
        /\ TEAMS = old_TEAMS

\* C7 witness: a fee update that failed, with its error shown.
C7_Witness ==
    /\ last_op = "race: fee failed"
    /\ Errors # {}
    /\ Len(CARS) >= 2

\* C8: no two registered teams have the same name.
C8_UniqueTeamNames ==
    \A i, j \in 1..Len(TEAMS) : TEAMS[i].TEAM_NAME = TEAMS[j].TEAM_NAME => i = j

\* C9: while the times are computed and while the prize update is pending
\* every budget is already the pre-race budget - RACE_FEE, and no time exists
\* before the fee is committed; when the prize update fails the error is
\* shown, the ranked results stay displayed and every budget stays at the
\* pre-race budget - RACE_FEE.
C9_FeeFirstNoRollback ==
    /\ pc \in {"racing", "settle"} => FeePaidByAll
    /\ pc = "racing" => (race_results = <<>> /\ winner_team_id = None)
    /\ last_op = "race: prize failed" =>
        /\ Errors # {}
        /\ results_df # <<>>
        /\ Len(results_df) = Len(CARS)
        /\ results_df \in sort_values(race_results)
        /\ FeePaidByAll

\* C9 witness: a race of two cars whose prize update failed.
C9_Witness ==
    /\ last_op = "race: prize failed"
    /\ Len(results_df) >= 2
    /\ \E t \in TeamIds : CarsOf(t) = {}

\* C10: a step of the Start Race handler leaves the cars and every column of
\* the teams but BUDGET as they were, and no step of any handler removes or
\* rewrites a registered car or a team's id, name or member count.
C10_RaceChangesOnlyBudgets ==
    [][/\ IsPrefix(WithoutBudget(TEAMS), WithoutBudget(TEAMS'))
       /\ IsPrefix(CARS, CARS')
       /\ last_op' \in RaceOps =>
            (WithoutBudget(TEAMS') = WithoutBudget(TEAMS) /\ CARS' = CARS)]_vars

\* C10 witness: a finished race that changed the budgets of two teams and
\* was won by the team registered first.
C10_Witness ==
    /\ last_op = "race: finished"
    /\ Len(TEAMS) >= 2
    /\ TEAMS[1].TEAM_ID = winner_team_id
    /\ TEAMS # old_TEAMS
    /\ WithoutBudget(TEAMS) = WithoutBudget(old_TEAMS)

====
